---- MODULE Spec2Model ----
(***************************************************************************)
(* Model of the godown report automation: src/main.py (one WhatsApp        *)
(* message per incoming file) and src/script.py (one compiled next-day     *)
(* loading summary over all godown folders).                               *)
(*                                                                         *)
(* A DataFrame is a record [cols, rows]: cols is the sequence of column    *)
(* labels, rows the sequence of rows, each row a sequence of cell values   *)
(* aligned with cols.  Cell values and labels are strings; a missing cell  *)
(* is the value NaN.  Dates are day numbers (day 1 is 2024-06-01).         *)
(* A text is a sequence of lines and a line is the sequence of the string  *)
(* pieces its f-string joins; the glyphs U+2022 and U+2014 are written     *)
(* "*" and "--", and main.py's triple-backquote fence "<fence>".           *)
(***************************************************************************)
EXTENDS Integers, Sequences, FiniteSets, TLC

VARIABLES
    pc,            \* position of the modelled program
    prog,          \* "main" (src/main.py) or "script" (src/script.py)
    today,         \* the date the clock reads (utcnow().date() / now().date())
    MAX_ROWS,      \* int(os.getenv("MAX_ROWS", ...))
    df,            \* filter harness: the parsed table
    raises,        \* filter harness: date columns whose conversion raises
    rows,          \* filter harness: the filter's result
    compiled,      \* render harness: the GroupedReport (ordered dict)
    out1,          \* render harness: text of the first format_report call
    out2,          \* render harness: text of the second format_report call
    godowns,       \* run: the folder listing
    files,         \* run: godown name -> file entries (script); "" -> entries (main)
    gi,            \* run: index of the godown being processed
    fi,            \* run: index of the file being processed
    all_rows,      \* run: rows accumulated for the current godown
    any_row,       \* run: script.py's any_row flag
    run_compiled,  \* run: script.py's compiled dict
    report_text,   \* run: script.py's report_text (<<>> before format_report)
    uploaded,      \* run: texts handed to files_upload
    sent,          \* run: bodies handed to the message transport
    moves,         \* run: files_move_v2 calls attempted, in order
    visited        \* run: file entries the loop has taken up, in order

vars == <<pc, prog, today, MAX_ROWS, df, raises, rows, compiled, out1, out2,
          godowns, files, gi, fi, all_rows, any_row, run_compiled,
          report_text, uploaded, sent, moves, visited>>

filterVars == <<df, raises, rows>>
renderVars == <<compiled, out1, out2>>
runVars == <<godowns, files, gi, fi, all_rows, any_row, run_compiled,
             report_text, uploaded, sent, moves, visited>>

\* ------------------------------------------------------------------ bounds

\* longest table (rows) the harnesses draw
MaxLen == 2

\* largest MAX_ROWS setting drawn
MaxCeil == 2

\* last day the clock may reach
MaxDay == 3

\* ------------------------------------------------------- strings and dates

\* str.strip() on the strings of the model
Strip(s) ==
    CASE s = " PARTY " -> "PARTY"
      [] s = "Date " -> "Date"
      [] s = " TN01 " -> "TN01"
      [] OTHER -> s

\* str.upper() on the labels and names of the model
Upper(s) ==
    CASE s = "Party" -> "PARTY"
      [] s = "qty" -> "QTY"
      [] s = "Date" -> "DATE"
      [] s = "Loading date" -> "LOADING DATE"
      [] s = "north" -> "NORTH"
      [] s = "south" -> "SOUTH"
      [] OTHER -> s

\* str.lower() on the labels of the model
Lower(s) ==
    CASE s = "PARTY" -> "party"
      [] s = "Party" -> "party"
      [] s = "MATERIAL" -> "material"
      [] s = "QTY" -> "qty"
      [] s = "APROX QTY" -> "aprox qty"
      [] s = "APPROX QTY" -> "approx qty"
      [] s = "QUANTITY" -> "quantity"
      [] s = "VEHICLE NO" -> "vehicle no"
      [] s = "VEHICLE" -> "vehicle"
      [] s = "Date" -> "date"
      [] s = "DATE" -> "date"
      [] s = "Loading date" -> "loading date"
      [] s = "LOADING DATE" -> "loading date"
      [] OTHER -> s

\* "date" in s, for a lower-cased label s
ContainsDate(s) == s \in {"date", "loading date"}

\* pd.to_datetime(v, errors="coerce").date(): the set holding the date, empty for NaT
ToDate(v) ==
    CASE v = "2024-06-02" -> {2}
      [] v = "2024-06-02 09:30" -> {2}
      [] v = "2024-06-03" -> {3}
      [] v = "2024-06-04" -> {4}
      [] OTHER -> {}

\* date.isoformat()
IsoFormat(d) ==
    CASE d = 1 -> "2024-06-01"
      [] d = 2 -> "2024-06-02"
      [] d = 3 -> "2024-06-03"
      [] d = 4 -> "2024-06-04"
      [] OTHER -> "2024-06-05"

\* (datetime.utcnow() + timedelta(days=1)).date() when the clock reads day d
Tomorrow(d) == d + 1

\* ------------------------------------------------------------- DataFrames

\* the missing cell
NaN == "<NaN>"

\* pd.DataFrame()
EmptyFrame == [cols |-> <<>>, rows |-> <<>>]

\* df.empty: no rows or no columns
IsEmpty(t) == Len(t.rows) = 0 \/ Len(t.cols) = 0

\* position of the first column labelled c (0 when there is none)
ColIndex(t, c) ==
    IF \E i \in 1..Len(t.cols) : t.cols[i] = c
    THEN CHOOSE i \in 1..Len(t.cols) :
            /\ t.cols[i] = c
            /\ \A j \in 1..(i - 1) : t.cols[j] # c
    ELSE 0

\* df[mask]: the rows whose mask entry is true, in order
RECURSIVE BoolIndex(_, _, _)
BoolIndex(rs, mask, i) ==
    IF i > Len(rs) THEN <<>>
    ELSE (IF mask[i] THEN <<rs[i]>> ELSE <<>>) \o BoolIndex(rs, mask, i + 1)

\* df.columns = [str(c).strip() for c in df.columns]
normalize_df(t) ==
    [cols |-> [i \in 1..Len(t.cols) |-> Strip(t.cols[i])], rows |-> t.rows]

\* main.py normalize_columns: df.rename(columns={c: c.strip()})
normalize_columns(t) ==
    [cols |-> [i \in 1..Len(t.cols) |-> Strip(t.cols[i])], rows |-> t.rows]

\* [c for c in df.columns if "date" in c.lower()], as column positions
RECURSIVE DateColsFrom(_, _)
DateColsFrom(t, i) ==
    IF i > Len(t.cols) THEN <<>>
    ELSE (IF ContainsDate(Lower(t.cols[i])) THEN <<i>> ELSE <<>>)
            \o DateColsFrom(t, i + 1)

date_cols(t) == DateColsFrom(t, 1)

\* parsed == tomorrow, row by row, for the column at position c
TomorrowMask(t, c, d) ==
    [r \in 1..Len(t.rows) |-> ToDate(t.rows[r][c]) = {Tomorrow(d)}]

\* a buggy loop: keeps the rows matching in any candidate column
AnyMatch(t, dc, k, exc, d, none) ==
    LET hit(r) == \E j \in 1..Len(dc) :
                    dc[j] \notin exc /\ ToDate(t.rows[r][dc[j]]) = {Tomorrow(d)}
        mask == [r \in 1..Len(t.rows) |-> hit(r)]
    IN  IF \E r \in 1..Len(t.rows) : mask[r]
        THEN [cols |-> t.cols, rows |-> BoolIndex(t.rows, mask, 1)]
        ELSE none

\* the loop "for c in date_cols" of both filters, from candidate k on; none is
\* the table returned when the loop ends without a match.  A column whose
\* conversion raises (exc) is passed over by "except Exception: continue".
RECURSIVE FirstMatch(_, _, _, _, _, _)
FirstMatch(t, dc, k, exc, d, none) ==
    IF k > Len(dc) THEN none
    ELSE IF dc[k] \in exc THEN FirstMatch(t, dc, k + 1, exc, d, none)
    ELSE LET mask == TomorrowMask(t, dc[k], d)
         IN  IF \E r \in 1..Len(t.rows) : mask[r]
             THEN [cols |-> t.cols, rows |-> BoolIndex(t.rows, mask, 1)]
             ELSE FirstMatch(t, dc, k + 1, exc, d, none)

\* script.py collect_tomorrow_rows
collect_tomorrow_rows(t, exc, d) ==
    IF date_cols(t) = <<>> THEN t
    ELSE FirstMatch(t, date_cols(t), 1, exc, d, [cols |-> t.cols, rows |-> <<>>])

\* main.py filter_tomorrow_rows: out = pd.DataFrame() is what falls through
filter_tomorrow_rows(t, exc, d) ==
    IF date_cols(t) = <<>> THEN t
    ELSE FirstMatch(t, date_cols(t), 1, exc, d, EmptyFrame)

\* the filter of program p
FilterOf(p, t, exc, d) ==
    IF p = "main" THEN filter_tomorrow_rows(t, exc, d)
    ELSE collect_tomorrow_rows(t, exc, d)

\* ---------------------------------------------------------- filter harness

\* sequences over S of length at most n
SeqUpTo(S, n) == UNION {[1..k -> S] : k \in 0..n}

\* column layouts of the parsed files the filter harness draws
FilterLayouts ==
    { <<" PARTY ", "QTY">>,
      <<"Date ", "PARTY">>,
      <<"PARTY", "Loading date", "DATE">> }

\* cell values a column of the filter harness may hold
CellValues(label) ==
    IF ContainsDate(Lower(Strip(label)))
    THEN {"2024-06-02", "2024-06-03", "tbd"}
    ELSE IF Strip(label) = "PARTY" THEN {"Acme", "Bolt"}
    ELSE {"10"}

\* the tables with a given layout and at most n rows
TablesOf(layout, n) ==
    LET RowSet == {r \in [1..Len(layout) -> {"2024-06-02", "2024-06-03", "tbd", "Acme", "Bolt", "10"}] :
                      \A i \in 1..Len(layout) : r[i] \in CellValues(layout[i])}
    IN  {[cols |-> layout, rows |-> rs] : rs \in SeqUpTo(RowSet, n)}

\* the values the variables of the other harnesses keep
IdleFilter == df = EmptyFrame /\ raises = {} /\ rows = EmptyFrame
IdleRender == compiled = <<>> /\ out1 = <<>> /\ out2 = <<>>
IdleRun ==
    /\ godowns = <<>> /\ files = <<>> /\ gi = 0 /\ fi = 0
    /\ all_rows = EmptyFrame /\ any_row = FALSE /\ run_compiled = <<>>
    /\ report_text = <<>> /\ uploaded = <<>> /\ sent = <<>>
    /\ moves = <<>> /\ visited = <<>>

FilterInit ==
    /\ pc = "parsed"
    /\ prog \in {"main", "script"}
    /\ today \in 1..(MaxDay - 1)
    /\ MAX_ROWS = 0
    /\ \E layout \in FilterLayouts : df \in TablesOf(layout, MaxLen)
    /\ raises \in SUBSET {i \in 1..Len(df.cols) : ContainsDate(Lower(Strip(df.cols[i])))}
    /\ rows = EmptyFrame
    /\ IdleRender /\ IdleRun

\* df = normalize_df(df) / normalize_columns(df)
Normalize ==
    /\ pc = "parsed"
    /\ df' = IF prog = "main" THEN normalize_columns(df) ELSE normalize_df(df)
    /\ pc' = "normalized"
    /\ UNCHANGED <<prog, today, MAX_ROWS, raises, rows>>
    /\ UNCHANGED renderVars /\ UNCHANGED runVars

\* rows = collect_tomorrow_rows(df) / filter_tomorrow_rows(df)
Filter ==
    /\ pc = "normalized"
    /\ rows' = FilterOf(prog, df, raises, today)
    /\ pc' = "filtered"
    /\ UNCHANGED <<prog, today, MAX_ROWS, df, raises>>
    /\ UNCHANGED renderVars /\ UNCHANGED runVars

FilterNext == Normalize \/ Filter

FilterSpec == FilterInit /\ [][FilterNext]_vars

\* ------------------------------------------------------------ filter claims

\* rows of t whose date in column c is the target date (none when c raises)
Hits(t, c, exc, d) ==
    IF c \in exc THEN {}
    ELSE {r \in 1..Len(t.rows) : ToDate(t.rows[r][c]) = {Tomorrow(d)}}

\* the j-th smallest member of a set of row numbers
Nth(S, j) == CHOOSE i \in S : Cardinality({h \in S : h < i}) = j - 1

\* the candidate columns of the table, left to right
Candidates(t) == {i \in 1..Len(t.cols) : ContainsDate(Lower(t.cols[i]))}

\* C1: when some candidate date column has a row dated the target date, the
\* filter's result is exactly the rows matching in the leftmost such candidate,
\* in their original order, with the table's columns; candidates without a
\* match before it are passed over and candidates after it contribute nothing.
C1_FirstCandidateWins ==
    pc = "filtered" =>
        \A c \in Candidates(df) :
            (/\ Hits(df, c, raises, today) # {}
             /\ \A b \in Candidates(df) : b < c => Hits(df, b, raises, today) = {})
            => LET H == Hits(df, c, raises, today)
               IN  /\ rows.cols = df.cols
                   /\ Len(rows.rows) = Cardinality(H)
                   /\ \A j \in 1..Len(rows.rows) : rows.rows[j] = df.rows[Nth(H, j)]

\* a state of the fall-through: two candidates, the first passed over without
\* a match, the second matching in one row only
C1_FallThroughSeen ==
    /\ pc = "filtered"
    /\ Cardinality(Candidates(df)) = 2
    /\ \E b, c \in Candidates(df) :
        /\ b < c
        /\ Hits(df, b, raises, today) = {}
        /\ Cardinality(Hits(df, c, raises, today)) = 1
    /\ Len(df.rows) = 2
    /\ Len(rows.rows) = 1

\* C1 witness: the short-circuit. The first candidate matches one row, the
\* second candidate alone matches the other row, and one row is returned
C1_Witness ==
    /\ pc = "filtered"
    /\ raises = {}
    /\ Len(df.rows) = 2
    /\ Len(rows.rows) = 1
    /\ \E b, c \in Candidates(df) :
        /\ b < c
        /\ Hits(df, b, raises, today) # {}
        /\ Hits(df, c, raises, today) \ Hits(df, b, raises, today) # {}

\* C2: with candidate date columns and no row dated the target date in any of
\* them, the filter returns no rows and the table's own columns, in order
C2_EmptyKeepsColumns ==
    (/\ pc = "filtered"
     /\ Candidates(df) # {}
     /\ \A c \in Candidates(df) : Hits(df, c, raises, today) = {})
    => (rows.rows = <<>> /\ rows.cols = df.cols)

\* ---------------------------------------------------------------- rendering

Min(a, b) == IF a < b THEN a ELSE b

Max(a, b) == IF a > b THEN a ELSE b

\* df.head(n): the first n rows; all but the last -n rows when n is negative
df_head(rs, n) ==
    IF n >= 0 THEN SubSeq(rs, 1, Min(n, Len(rs)))
    ELSE SubSeq(rs, 1, Max(0, Len(rs) + n))

\* str(v): a missing cell prints as nan
Str(v) == IF v = NaN THEN "nan" ELSE v

\* row.get(key, default) for a row of table t
Get(t, row, key, default) ==
    IF ColIndex(t, key) = 0 THEN default ELSE row[ColIndex(t, key)]

\* "-" * 40
Rule == "----------------------------------------"

\* the line format_report builds for one row (script.py lines 165-172)
RowLine(t, row) ==
    LET party == Strip(Str(Get(t, row, "PARTY", "")))
        material == Strip(Str(Get(t, row, "MATERIAL", "")))
        qty == Strip(Str(Get(t, row, "APROX QTY",
                        Get(t, row, "QTY", Get(t, row, "QUANTITY", "")))))
        vehicle == Strip(Str(Get(t, row, "VEHICLE NO", Get(t, row, "VEHICLE", ""))))
    IN  <<"* ", party, " -- ", material, " -- ", qty>>
            \o (IF vehicle # "" THEN <<" -- ", vehicle>> ELSE <<>>)

\* the lines of one godown (script.py lines 145-172)
GodownLines(name, t, n) ==
    <<<<"\nGODOWN: ", Upper(name)>>>>
        \o (IF IsEmpty(t) THEN <<<<"  No items">>>>
            ELSE [j \in 1..Len(df_head(t.rows, n)) |->
                    RowLine(t, df_head(t.rows, n)[j])])

\* a buggy total: every matched row is counted, rendered or not
RECURSIVE TotalMatched(_, _, _)
TotalMatched(c, k, n) ==
    IF k > Len(c) THEN 0
    ELSE Len(c[k][2].rows) + TotalMatched(c, k + 1, n)

\* total_items after the loop over the godowns: one per line produced
RECURSIVE TotalItems(_, _, _)
TotalItems(c, k, n) ==
    IF k > Len(c) THEN 0
    ELSE (IF IsEmpty(c[k][2]) THEN 0 ELSE Len(df_head(c[k][2].rows, n)))
            + TotalItems(c, k + 1, n)

RECURSIVE AllGodownLines(_, _, _)
AllGodownLines(c, k, n) ==
    IF k > Len(c) THEN <<>>
    ELSE GodownLines(c[k][1], c[k][2], n) \o AllGodownLines(c, k + 1, n)

\* script.py format_report; c is the dict as its sequence of <<godown, df>>
\* items, d the date the clock reads during the call, n the MAX_ROWS setting
format_report(c, d, n) ==
    <<<<"NEXT DAY LOADING SUMMARY">>,
      <<"Date: ", IsoFormat(Tomorrow(d))>>,
      <<Rule>>>>
        \o AllGodownLines(c, 1, n)
        \o <<<<"\n", Rule>>,
             <<"Total items listed: ", ToString(TotalItems(c, 1, n))>>>>

\* ----------------------------------------------------------- render harness

\* godown folder names
GodownNames == {"north", "south"}

\* column layouts of the compiled tables the render harness draws
RenderLayouts ==
    { <<"PARTY", "MATERIAL", "QTY", "VEHICLE NO">>,
      <<"Party", "MATERIAL", "qty">>,
      <<"PARTY", "QUANTITY", "APROX QTY", "VEHICLE">> }

\* the cell a row of kind k holds under a label
CellOf(k, label) ==
    CASE Upper(label) = "PARTY" -> IF k = "a" THEN "Acme" ELSE "Bolt"
      [] label = "MATERIAL" -> IF k = "a" THEN "Steel" ELSE "Iron"
      [] Upper(label) = "QTY" -> IF k = "a" THEN "10" ELSE "20"
      [] label = "QUANTITY" -> IF k = "a" THEN "12" ELSE "22"
      [] label = "APROX QTY" -> IF k = "a" THEN "11" ELSE "21"
      [] label = "VEHICLE NO" -> IF k = "a" THEN " TN01 " ELSE NaN
      [] label = "VEHICLE" -> IF k = "a" THEN "TN02" ELSE ""
      [] OTHER -> "2024-06-02"

RowOf(layout, k) == [i \in 1..Len(layout) |-> CellOf(k, layout[i])]

\* the compiled tables: pd.DataFrame() and, per layout, up to n rows
CompiledTables(n) ==
    {EmptyFrame} \cup
    {[cols |-> layout, rows |-> [j \in 1..Len(ks) |-> RowOf(layout, ks[j])]] :
        layout \in RenderLayouts, ks \in SeqUpTo({"a", "b"}, n) \ {<<>>}}

\* the dicts {godown: DataFrame}, as item sequences with distinct keys
GroupedReports(n) ==
    {c \in SeqUpTo(GodownNames \X CompiledTables(n), Cardinality(GodownNames)) :
        \A i, j \in 1..Len(c) : i # j => c[i][1] # c[j][1]}

RenderInit ==
    /\ pc = "ready"
    /\ prog = "script"
    /\ today \in 1..(MaxDay - 1)
    /\ MAX_ROWS \in 0..MaxCeil
    /\ compiled \in GroupedReports(MaxLen + 1)
    /\ out1 = <<>> /\ out2 = <<>>
    /\ IdleFilter /\ IdleRun

\* report_text = format_report(compiled)
Render1 ==
    /\ pc = "ready"
    /\ out1' = format_report(compiled, today, MAX_ROWS)
    /\ pc' = "once"
    /\ UNCHANGED <<prog, today, MAX_ROWS, compiled, out2>>
    /\ UNCHANGED filterVars /\ UNCHANGED runVars

\* midnight passes between the two calls
Tick ==
    /\ pc = "once"
    /\ today < MaxDay
    /\ today' = today + 1
    /\ UNCHANGED <<pc, prog, MAX_ROWS>>
    /\ UNCHANGED filterVars /\ UNCHANGED renderVars /\ UNCHANGED runVars

\* format_report(compiled) called again on the same dict
Render2 ==
    /\ pc = "once"
    /\ out2' = format_report(compiled, today, MAX_ROWS)
    /\ pc' = "twice"
    /\ UNCHANGED <<prog, today, MAX_ROWS, compiled, out1>>
    /\ UNCHANGED filterVars /\ UNCHANGED runVars

RenderNext == Render1 \/ Tick \/ Render2

RenderSpec == RenderInit /\ [][RenderNext]_vars

\* ------------------------------------------------------------ reading a text

IsGodownHeader(line) == line[1] = "\nGODOWN: "

IsRowLine(line) == line[1] = "* "

IsClosingRule(line) == line = <<"\n", Rule>>

\* positions of the godown headers of a text
HeaderAt(text) == {i \in 1..Len(text) : IsGodownHeader(text[i])}

\* the lines of the section whose header is at position h: up to the next
\* header or the closing rule
SectionOf(text, h) ==
    LET stop == CHOOSE e \in (h + 1)..Len(text) :
                    /\ IsGodownHeader(text[e]) \/ IsClosingRule(text[e])
                    /\ \A m \in (h + 1)..(e - 1) :
                        ~IsGodownHeader(text[m]) /\ ~IsClosingRule(text[m])
    IN  SubSeq(text, h + 1, stop - 1)

\* number of row lines among the lines ls
RowLineCount(ls) == Cardinality({i \in 1..Len(ls) : IsRowLine(ls[i])})

\* sum of f over the positions 1..n
RECURSIVE SumTo(_, _)
SumTo(f, n) == IF n = 0 THEN 0 ELSE f[n] + SumTo(f, n - 1)

\* ------------------------------------------------------------ render claims

\* C3: every godown's section holds min(MAX_ROWS, rows of the godown) row
\* lines, and the closing line reports the sum of those counts
C3_CeilingAndTotal ==
    pc \in {"once", "twice"} =>
        /\ Cardinality(HeaderAt(out1)) = Len(compiled)
        /\ \A k \in 1..Len(compiled) :
            RowLineCount(SectionOf(out1, Nth(HeaderAt(out1), k)))
                = Min(MAX_ROWS, Len(compiled[k][2].rows))
        /\ out1[Len(out1)] =
            <<"Total items listed: ",
              ToString(SumTo([k \in 1..Len(compiled) |->
                                Min(MAX_ROWS, Len(compiled[k][2].rows))],
                             Len(compiled)))>>

\* C3 witness: a godown with more rows than the ceiling beside another godown
\* that has rows
C3_Witness ==
    /\ pc = "once"
    /\ Len(compiled) = 2
    /\ MAX_ROWS = 2
    /\ Len(compiled[1][2].rows) > MAX_ROWS
    /\ Len(compiled[2][2].rows) = 1
    /\ out1[Len(out1)] = <<"Total items listed: ", "3">>

\* the cell the case- and whitespace-insensitive resolution of the synonyms
\* syn (in priority order) picks for a row, printed; blank when none matches
Resolved(t, row, syn) ==
    LET matches(p) == {i \in 1..Len(t.cols) : Upper(Strip(t.cols[i])) = p}
        present == {q \in 1..Len(syn) : matches(syn[q]) # {}}
    IN  IF present = {} THEN ""
        ELSE Strip(Str(row[Nth(matches(syn[Nth(present, 1)]), 1)]))

\* C8: the party and quantity printed for a row are the cells of the columns
\* the synonym lists resolve to, matching labels without regard to case
C8_ResolvedColumns ==
    pc \in {"once", "twice"} =>
        \A k \in 1..Len(compiled) :
            LET t == compiled[k][2]
                sec == SectionOf(out1, Nth(HeaderAt(out1), k))
            IN  \A j \in 1..Len(sec) :
                    IsRowLine(sec[j]) =>
                        /\ sec[j][2] = Resolved(t, t.rows[j], <<"PARTY">>)
                        /\ sec[j][6] = Resolved(t, t.rows[j],
                                            <<"APROX QTY", "QTY", "QUANTITY">>)

\* C9: two calls of format_report on the same dict give the same text
C9_SameTextTwice == pc = "twice" => out1 = out2

\* ------------------------------------------------------------- aggregation

\* the row of table t laid out under the columns cs, NaN where t has no such column
Realign(t, row, cs) ==
    [i \in 1..Len(cs) |->
        IF ColIndex(t, cs[i]) = 0 THEN NaN ELSE row[ColIndex(t, cs[i])]]

\* the labels of b that a does not have, in b's order
RECURSIVE NewCols(_, _, _)
NewCols(a, b, i) ==
    IF i > Len(b.cols) THEN <<>>
    ELSE (IF ColIndex(a, b.cols[i]) = 0 THEN <<b.cols[i]>> ELSE <<>>)
            \o NewCols(a, b, i + 1)

\* a buggy accumulation: the new rows replace the rows gathered so far
ConcatLast(a, b) == b

\* pd.concat([a, b], ignore_index=True, sort=False)
pd_concat(a, b) ==
    LET cs == a.cols \o NewCols(a, b, 1)
    IN  [cols |-> cs,
         rows |-> [i \in 1..Len(a.rows) |-> Realign(a, a.rows[i], cs)]
                    \o [i \in 1..Len(b.rows) |-> Realign(b, b.rows[i], cs)]]

\* a buggy assignment: a godown without rows gets no key
DictSetNonEmpty(c, key, val) ==
    IF IsEmpty(val) THEN c ELSE Append(c, <<key, val>>)

\* compiled[gd] = all_rows on the dict's item sequence
DictSet(c, key, val) ==
    IF \E k \in 1..Len(c) : c[k][1] = key
    THEN [k \in 1..Len(c) |-> IF c[k][1] = key THEN <<key, val>> ELSE c[k]]
    ELSE Append(c, <<key, val>>)

\* ----------------------------------------------------- main.py message body

\* the column order build_table_text shows: preferred names first (main.py 140-150)
Prefer ==
    <<"PARTY", "MATERIAL", "APROX QTY", "APPROX QTY", "QTY", "QUANTITY",
      "RATE / KG", "RATE", "VEHICLE NO", "VEHICLE", "ACTUAL QTY", "STATUS",
      "PAYMENT", "DATE">>

RECURSIVE PreferredCols(_, _, _)
PreferredCols(t, p, i) ==
    IF p > Len(Prefer) THEN <<>>
    ELSE IF i > Len(t.cols) THEN PreferredCols(t, p + 1, 1)
    ELSE (IF Upper(Strip(t.cols[i])) = Prefer[p] THEN <<t.cols[i]>> ELSE <<>>)
            \o PreferredCols(t, p, i + 1)

RECURSIVE OtherCols(_, _, _)
OtherCols(t, chosen, i) ==
    IF i > Len(t.cols) THEN <<>>
    ELSE (IF \E k \in 1..Len(chosen) : chosen[k] = t.cols[i]
          THEN <<>> ELSE <<t.cols[i]>>)
            \o OtherCols(t, chosen, i + 1)

DisplayCols(t) == PreferredCols(t, 1, 1) \o OtherCols(t, PreferredCols(t, 1, 1), 1)

\* str(r.get(c, "")) with a missing cell shown as "" (main.py line 160)
ShownCell(t, row, c) ==
    IF Get(t, row, c, "") = NaN THEN "" ELSE Get(t, row, c, "")

\* main.py build_table_text: the body as lines; a table line is the sequence
\* of its cells, each <<text, width>> standing for text.ljust(width)
build_table_text(t, d, n) ==
    IF IsEmpty(t) THEN <<<<"No items scheduled for loading tomorrow.">>>>
    ELSE
      LET cs == DisplayCols(t)
          shown == df_head(t.rows, n)
          cell(j, i) == ShownCell(t, shown[j], cs[i])
          width(i) ==
            LET lens == {Len(cs[i])} \cup {Len(cell(j, i)) : j \in 1..Len(shown)}
            IN  CHOOSE w \in lens : \A v \in lens : v <= w
      IN  <<<<"Loading schedule for ", IsoFormat(Tomorrow(d))>>, <<"">>, <<"<fence>">>,
            [i \in 1..Len(cs) |-> <<cs[i], width(i)>>],
            [i \in 1..Len(cs) |-> <<"-", width(i)>>]>>
            \o [j \in 1..Len(shown) |-> [i \in 1..Len(cs) |-> <<cell(j, i), width(i)>>]]
            \o <<<<"<fence>">>>>
            \o (IF Len(t.rows) > n
                THEN <<<<"(Showing first ", ToString(n), " of ",
                         ToString(Len(t.rows)), " rows)">>>>
                ELSE <<>>)

\* ------------------------------------------------------------------ the run

\* tables the listed files parse to
RunTables ==
    { [cols |-> <<"PARTY", "QTY", "Date ">>,
       rows |-> <<<<"Acme", "10", "2024-06-02">>, <<"Bolt", "20", "2024-06-03">>>>],
      [cols |-> <<" PARTY ", "VEHICLE NO">>,
       rows |-> <<<<"Cole", " TN01 ">>>>],
      [cols |-> <<"DATE", "PARTY">>,
       rows |-> <<<<"tbd", "Dune">>>>] }

\* most files one listing returns in all
MaxFiles == 3

\* server_modified values of main.py's entries
Stamps == {1, 2}

\* what a file listed for script.py turns out to be: its download fails, its
\* parse fails, or it parses to a table
ScriptShapes ==
    {[kind |-> k, df |-> EmptyFrame, stamp |-> 1] : k \in {"dlfail", "parsefail"}}
        \cup {[kind |-> "ok", df |-> t, stamp |-> 1] : t \in RunTables}

\* the same for main.py, whose entries also may be hidden (name starts with
\* ".") or carry a label that is not a string (normalize_columns raises)
MainShapes ==
    {[kind |-> k, df |-> EmptyFrame, stamp |-> 1] :
        k \in {"hidden", "dlfail", "parsefail", "badlabel"}}
        \cup {[kind |-> "ok", df |-> t, stamp |-> m] : t \in RunTables, m \in Stamps}

\* a folder's entries from their shapes: the path is the folder and the
\* position in the listing
EntriesOf(folder, shapes) ==
    [k \in 1..Len(shapes) |->
        [path |-> <<folder, k>>, kind |-> shapes[k].kind, df |-> shapes[k].df,
         stamp |-> shapes[k].stamp]]

\* the sequences of distinct godown names
Listings ==
    {g \in SeqUpTo(GodownNames, Cardinality(GodownNames)) :
        \A i, j \in 1..Len(g) : i # j => g[i] # g[j]}

\* number of entries in the folders gs of the listing f
RECURSIVE CountFiles(_, _, _)
CountFiles(f, gs, k) ==
    IF k > Len(gs) THEN 0 ELSE Len(f[gs[k]]) + CountFiles(f, gs, k + 1)

\* sorted(files, key=server_modified): stable insertion of e into sorted s
RECURSIVE InsertByStamp(_, _)
InsertByStamp(s, e) ==
    IF s = <<>> THEN <<e>>
    ELSE IF s[Len(s)].stamp <= e.stamp THEN Append(s, e)
    ELSE Append(InsertByStamp(SubSeq(s, 1, Len(s) - 1), e), s[Len(s)])

RECURSIVE SortedPrefix(_, _)
SortedPrefix(s, n) ==
    IF n = 0 THEN <<>> ELSE InsertByStamp(SortedPrefix(s, n - 1), s[n])

\* main.py files_sorted
files_sorted == SortedPrefix(files["incoming"], Len(files["incoming"]))

\* the entries the loop in progress runs over
CurrentFiles ==
    IF prog = "main" THEN files_sorted ELSE files[godowns[gi]]

\* the no-items message script.py sends instead of the report
NoItemsBody == <<<<"No items scheduled for loading tomorrow.">>>>

\* a buggy loop: a failed file ends the loop
BreakOnFailure(i, n) == n + 1

\* the index of the next file once a file's download or parse has failed:
\* "continue" in script.py, "return False" inside the try of main.py's loop
NextAfterFailure(i, n) == i + 1

\* the files_move_v2 calls script.py makes for one entry, as destinations
ScriptMoves(kind, gd) ==
    IF kind = "dlfail" THEN <<>> ELSE <<<<"processed", gd>>>>

\* the files_move_v2 calls main.py makes for one entry; res is what the send
\* did ("ok", "rejected" or "raise")
MainMoves(kind, res) ==
    CASE kind = "dlfail" -> <<>>
      [] kind = "parsefail" -> <<<<"processed", "error">>>>
      [] kind = "badlabel" -> <<<<"processed", "error">>>>
      [] kind = "ok" /\ res = "raise" -> <<<<"processed", "error">>>>
      [] OTHER -> <<<<"processed">>>>

\* a buggy handler: the failed parse moves the file and falls through to the
\* move at the end
MovesTwiceOnParseFail(p, kind, gd, res) ==
    IF kind = "parsefail"
    THEN <<<<"processed", "error">>, <<"processed", gd>>>>
    ELSE IF p = "main" THEN MainMoves(kind, res) ELSE ScriptMoves(kind, gd)

\* the move destinations program p attempts for one entry
MovesOf(p, kind, gd, res) ==
    IF p = "main" THEN MainMoves(kind, res) ELSE ScriptMoves(kind, gd)

\* the moves log after the calls for the entry at path
LogMoves(log, path, dests) ==
    log \o [k \in 1..Len(dests) |-> [path |-> path, dest |-> dests[k]]]

RunInit ==
    /\ pc = "start"
    /\ prog \in {"main", "script"}
    /\ today = 1
    /\ MAX_ROWS = MaxCeil
    /\ IF prog = "script"
       THEN /\ godowns \in Listings
            /\ files \in {f \in [{godowns[k] : k \in 1..Len(godowns)} ->
                                    {EntriesOf("", sh) : sh \in SeqUpTo(ScriptShapes, MaxFiles)}] :
                            CountFiles(f, godowns, 1) <= MaxFiles}
       ELSE /\ godowns = <<>>
            /\ files \in [{"incoming"} ->
                            {EntriesOf("incoming", sh) : sh \in SeqUpTo(MainShapes, MaxFiles)}]
    /\ gi = 0 /\ fi = 0
    /\ all_rows = EmptyFrame /\ any_row = FALSE /\ run_compiled = <<>>
    /\ report_text = <<>> /\ uploaded = <<>> /\ sent = <<>>
    /\ moves = <<>> /\ visited = <<>>
    /\ IdleFilter /\ IdleRender

\* the path of entry e of godown gd (folder + name)
PathOf(e, gd) == IF prog = "main" THEN e.path ELSE <<gd, e.path[2]>>

\* script.py main, lines 210-215: no godown folder is listed
ScriptNoGodowns ==
    /\ pc = "start" /\ prog = "script"
    /\ godowns = <<>>
    /\ pc' = "done"
    /\ UNCHANGED <<prog, today, MAX_ROWS>>
    /\ UNCHANGED filterVars /\ UNCHANGED renderVars /\ UNCHANGED runVars

\* script.py main, lines 216-217
ScriptBegin ==
    /\ pc = "start" /\ prog = "script"
    /\ godowns # <<>>
    /\ run_compiled' = <<>> /\ any_row' = FALSE
    /\ gi' = 1
    /\ pc' = "godown"
    /\ UNCHANGED <<prog, today, MAX_ROWS, godowns, files, fi, all_rows,
                   report_text, uploaded, sent, moves, visited>>
    /\ UNCHANGED filterVars /\ UNCHANGED renderVars

\* script.py main, lines 218-222: the next godown's files are listed
ScriptGodown ==
    /\ pc = "godown" /\ gi <= Len(godowns)
    /\ all_rows' = EmptyFrame
    /\ fi' = 1
    /\ pc' = "files"
    /\ UNCHANGED <<prog, today, MAX_ROWS, godowns, files, gi, any_row,
                   run_compiled, report_text, uploaded, sent, moves, visited>>
    /\ UNCHANGED filterVars /\ UNCHANGED renderVars

\* script.py main, lines 223-238: one pass of the loop over the files
ScriptFile ==
    /\ pc = "files" /\ prog = "script" /\ fi <= Len(CurrentFiles)
    /\ LET e == CurrentFiles[fi]
           gd == godowns[gi]
           got == collect_tomorrow_rows(normalize_df(e.df), {}, today)
       IN  /\ visited' = Append(visited, PathOf(e, gd))
           /\ moves' = LogMoves(moves, PathOf(e, gd), MovesOf(prog, e.kind, gd, "ok"))
           /\ \/ /\ e.kind \in {"dlfail", "parsefail"}
                 /\ fi' = NextAfterFailure(fi, Len(CurrentFiles))
                 /\ UNCHANGED <<all_rows, any_row>>
              \/ /\ e.kind = "ok"
                 /\ fi' = fi + 1
                 /\ IF ~IsEmpty(got)
                    THEN any_row' = TRUE /\ all_rows' = pd_concat(all_rows, got)
                    ELSE UNCHANGED <<all_rows, any_row>>
    /\ UNCHANGED <<pc, prog, today, MAX_ROWS, godowns, files, gi, run_compiled,
                   report_text, uploaded, sent>>
    /\ UNCHANGED filterVars /\ UNCHANGED renderVars

\* script.py main, line 239
ScriptEndGodown ==
    /\ pc = "files" /\ prog = "script" /\ fi > Len(CurrentFiles)
    /\ run_compiled' = DictSet(run_compiled, godowns[gi], all_rows)
    /\ gi' = gi + 1
    /\ pc' = "godown"
    /\ UNCHANGED <<prog, today, MAX_ROWS, godowns, files, fi, all_rows, any_row,
                   report_text, uploaded, sent, moves, visited>>
    /\ UNCHANGED filterVars /\ UNCHANGED renderVars

\* script.py main, lines 241-248: the report is built, uploaded and sent
ScriptReport ==
    /\ pc = "godown" /\ gi > Len(godowns)
    /\ report_text' = format_report(run_compiled, today, MAX_ROWS)
    /\ uploaded' = Append(uploaded, report_text')
    /\ sent' = Append(sent, IF any_row THEN report_text' ELSE NoItemsBody)
    /\ pc' = "done"
    /\ UNCHANGED <<prog, today, MAX_ROWS, godowns, files, gi, fi, all_rows,
                   any_row, run_compiled, moves, visited>>
    /\ UNCHANGED filterVars /\ UNCHANGED renderVars

\* main.py main, lines 217-221: nothing is listed
MainNoFiles ==
    /\ pc = "start" /\ prog = "main"
    /\ files["incoming"] = <<>>
    /\ pc' = "done"
    /\ UNCHANGED <<prog, today, MAX_ROWS>>
    /\ UNCHANGED filterVars /\ UNCHANGED renderVars /\ UNCHANGED runVars

\* main.py main, lines 222-224
MainBegin ==
    /\ pc = "start" /\ prog = "main"
    /\ files["incoming"] # <<>>
    /\ fi' = 1
    /\ pc' = "files"
    /\ UNCHANGED <<prog, today, MAX_ROWS, godowns, files, gi, all_rows, any_row,
                   run_compiled, report_text, uploaded, sent, moves, visited>>
    /\ UNCHANGED filterVars /\ UNCHANGED renderVars

\* main.py main, lines 225-228: a hidden file is passed over
MainSkipHidden ==
    /\ pc = "files" /\ prog = "main" /\ fi <= Len(CurrentFiles)
    /\ CurrentFiles[fi].kind = "hidden"
    /\ fi' = fi + 1
    /\ UNCHANGED <<pc, prog, today, MAX_ROWS, godowns, files, gi, all_rows, any_row,
                   run_compiled, report_text, uploaded, sent, moves, visited>>
    /\ UNCHANGED filterVars /\ UNCHANGED renderVars

\* main.py main, lines 229-237 with process_file, lines 194-214: a file that
\* is not downloaded or not parsed, or whose labels make normalize_columns raise
MainFileFails ==
    /\ pc = "files" /\ prog = "main" /\ fi <= Len(CurrentFiles)
    /\ LET e == CurrentFiles[fi]
       IN  /\ e.kind \in {"dlfail", "parsefail", "badlabel"}
           /\ visited' = Append(visited, e.path)
           /\ moves' = LogMoves(moves, e.path, MovesOf(prog, e.kind, "", "ok"))
           /\ fi' = NextAfterFailure(fi, Len(CurrentFiles))
    /\ UNCHANGED <<pc, prog, today, MAX_ROWS, godowns, files, gi, all_rows, any_row,
                   run_compiled, report_text, uploaded, sent>>
    /\ UNCHANGED filterVars /\ UNCHANGED renderVars

\* main.py main, lines 229-237 with process_file, lines 194-214: a parsed file
\* is filtered, its text sent (accepted, rejected, or the request raises) and
\* the file moved
MainFileSends ==
    /\ pc = "files" /\ prog = "main" /\ fi <= Len(CurrentFiles)
    /\ LET e == CurrentFiles[fi]
           got == filter_tomorrow_rows(normalize_columns(e.df), {}, today)
       IN  /\ e.kind = "ok"
           /\ visited' = Append(visited, e.path)
           /\ sent' = Append(sent, build_table_text(got, today, MAX_ROWS))
           /\ \E res \in {"ok", "rejected", "raise"} :
                moves' = LogMoves(moves, e.path, MovesOf(prog, e.kind, "", res))
           /\ fi' = fi + 1
    /\ UNCHANGED <<pc, prog, today, MAX_ROWS, godowns, files, gi, all_rows, any_row,
                   run_compiled, report_text, uploaded>>
    /\ UNCHANGED filterVars /\ UNCHANGED renderVars

\* main.py main, lines 238-240
MainEnd ==
    /\ pc = "files" /\ prog = "main" /\ fi > Len(CurrentFiles)
    /\ pc' = "done"
    /\ UNCHANGED <<prog, today, MAX_ROWS>>
    /\ UNCHANGED filterVars /\ UNCHANGED renderVars /\ UNCHANGED runVars

RunNext ==
    \/ ScriptNoGodowns \/ ScriptBegin \/ ScriptGodown \/ ScriptFile
    \/ ScriptEndGodown \/ ScriptReport
    \/ MainNoFiles \/ MainBegin \/ MainSkipHidden \/ MainFileFails
    \/ MainFileSends \/ MainEnd

RunSpec == RunInit /\ [][RunNext]_vars

\* ------------------------------------------------------------- whole model

Init == FilterInit \/ RenderInit \/ RunInit

Next == FilterNext \/ RenderNext \/ RunNext

Spec == Init /\ [][Next]_vars

\* --------------------------------------------------------------- run claims

\* the rows a parsed file hands to the aggregation, each with its table
FileRows(e, p, d) ==
    LET got == FilterOf(p, IF p = "main" THEN normalize_columns(e.df)
                              ELSE normalize_df(e.df), {}, d)
    IN  IF e.kind = "ok" /\ ~IsEmpty(got)
        THEN [j \in 1..Len(got.rows) |-> [t |-> got, row |-> got.rows[j]]]
        ELSE <<>>

\* the rows of the entries es from position i on, in file then row order
RECURSIVE SourceRows(_, _, _)
SourceRows(es, i, d) ==
    IF i > Len(es) THEN <<>>
    ELSE FileRows(es[i], "script", d) \o SourceRows(es, i + 1, d)

\* row r of table t is the source row src, laid out under t's columns
SameRow(t, r, src) ==
    /\ \A i \in 1..Len(src.t.cols) : ColIndex(t, src.t.cols[i]) # 0
    /\ \A i \in 1..Len(t.cols) :
        r[i] = IF ColIndex(src.t, t.cols[i]) = 0 THEN NaN
               ELSE src.row[ColIndex(src.t, t.cols[i])]

\* the header line of a godown's section
HeaderLine(name) == <<"\nGODOWN: ", Upper(name)>>

\* the paths of the listing in the order script.py takes the files up
RECURSIVE ScriptOrder(_)
ScriptOrder(k) ==
    IF k > Len(godowns) THEN <<>>
    ELSE [i \in 1..Len(files[godowns[k]]) |-> <<godowns[k], i>>] \o ScriptOrder(k + 1)

\* the paths main.py takes up: the sorted entries that are not hidden
RECURSIVE MainOrder(_)
MainOrder(i) ==
    IF i > Len(files_sorted) THEN <<>>
    ELSE (IF files_sorted[i].kind = "hidden" THEN <<>> ELSE <<files_sorted[i].path>>)
            \o MainOrder(i + 1)

\* C4: a finished run of script.py has built and uploaded a report document:
\* title, date line, rule, sections, closing rule and total line
C4_AlwaysAReport ==
    (prog = "script" /\ pc = "done") =>
        /\ Len(report_text) >= 5
        /\ report_text[1] = <<"NEXT DAY LOADING SUMMARY">>
        /\ report_text[2][1] = "Date: "
        /\ report_text[3] = <<Rule>>
        /\ IsClosingRule(report_text[Len(report_text) - 1])
        /\ report_text[Len(report_text)][1] = "Total items listed: "
        /\ uploaded = <<report_text>>

\* C5: a file whose download or parse fails ends nothing but itself: the
\* loops stay inside the listing until the run is done, a finished run has
\* taken up every listed file in order, and every file that parsed has its
\* matching rows in the output (the godown's compiled rows in script.py, the
\* file's own message in main.py)
C5_FailureDoesNotBlock ==
    /\ pc = "files" => fi \in 1..(Len(CurrentFiles) + 1)
    /\ pc = "godown" => gi \in 1..(Len(godowns) + 1)
    /\ (pc = "done" /\ prog = "script") =>
        /\ visited = ScriptOrder(1)
        /\ \A k \in 1..Len(godowns) :
            \A i \in 1..Len(files[godowns[k]]) :
                LET src == FileRows(files[godowns[k]][i], prog, today)
                IN  \A j \in 1..Len(src) :
                        \E c \in 1..Len(run_compiled) :
                            /\ run_compiled[c][1] = godowns[k]
                            /\ \E r \in 1..Len(run_compiled[c][2].rows) :
                                SameRow(run_compiled[c][2],
                                        run_compiled[c][2].rows[r], src[j])
    /\ (pc = "done" /\ prog = "main") =>
        /\ visited = MainOrder(1)
        /\ \A i \in 1..Len(files_sorted) :
            files_sorted[i].kind = "ok" =>
                \E m \in 1..Len(sent) :
                    sent[m] = build_table_text(
                                FilterOf(prog, normalize_columns(files_sorted[i].df), {}, today),
                                today, MAX_ROWS)

\* C5 witness: a finished script.py run in which a failed download and a
\* failed parse come before a file of the same godown whose row is compiled
C5_Witness ==
    /\ pc = "done" /\ prog = "script"
    /\ Len(godowns) = 1
    /\ Len(files[godowns[1]]) = 3
    /\ files[godowns[1]][1].kind = "dlfail"
    /\ files[godowns[1]][2].kind = "parsefail"
    /\ files[godowns[1]][3].kind = "ok"
    /\ Len(run_compiled[1][2].rows) = 1

\* C6: every listed godown is a key of the compiled dict; one none of whose
\* files gave a row has no rows there, and its section of the report is the
\* header followed by the one line "No items"; the total counts row lines only
C6_EmptyGodownKept ==
    (prog = "script" /\ pc = "done" /\ godowns # <<>>) =>
        /\ \A k \in 1..Len(godowns) :
            /\ \E c \in 1..Len(run_compiled) : run_compiled[c][1] = godowns[k]
            /\ SourceRows(files[godowns[k]], 1, today) = <<>> =>
                /\ \A c \in 1..Len(run_compiled) :
                    run_compiled[c][1] = godowns[k] => run_compiled[c][2].rows = <<>>
                /\ \E h \in HeaderAt(report_text) :
                    /\ report_text[h] = HeaderLine(godowns[k])
                    /\ SectionOf(report_text, h) = <<<<"  No items">>>>
        /\ report_text[Len(report_text)] =
            <<"Total items listed: ", ToString(RowLineCount(report_text))>>

\* C6 witness: one godown with a row, another whose only files fail or match
\* nothing
C6_Witness ==
    /\ prog = "script" /\ pc = "done"
    /\ Len(godowns) = 2
    /\ Len(files[godowns[1]]) = 2
    /\ SourceRows(files[godowns[1]], 1, today) = <<>>
    /\ Len(SourceRows(files[godowns[2]], 1, today)) = 1
    /\ report_text[Len(report_text)] = <<"Total items listed: ", "1">>

\* C7: each godown's compiled rows are the filtered rows of its files, in file
\* then row order, nothing lost, added or moved to another godown; the keys
\* are in listing order and the report's sections follow that order
C7_AggregationOrder ==
    prog = "script" =>
        /\ \A k \in 1..Len(run_compiled) :
            LET src == SourceRows(files[godowns[k]], 1, today)
                t == run_compiled[k][2]
            IN  /\ run_compiled[k][1] = godowns[k]
                /\ Len(t.rows) = Len(src)
                /\ \A j \in 1..Len(src) : SameRow(t, t.rows[j], src[j])
        /\ (pc = "done" /\ godowns # <<>>) =>
            /\ Len(run_compiled) = Len(godowns)
            /\ Cardinality(HeaderAt(report_text)) = Len(godowns)
            /\ \A k \in 1..Len(godowns) :
                report_text[Nth(HeaderAt(report_text), k)] = HeaderLine(godowns[k])

\* C7 witness: a godown compiled from two files of different layouts, after
\* another godown with rows of its own
C7_Witness ==
    /\ prog = "script" /\ pc = "done"
    /\ Len(godowns) = 2
    /\ Len(run_compiled[1][2].rows) = 1
    /\ Len(files[godowns[2]]) = 2
    /\ Len(run_compiled[2][2].rows) = 2
    /\ Len(run_compiled[2][2].cols) = 4

\* the kind of the listed entry at a path
KindAt(path) ==
    IF prog = "main" THEN files["incoming"][path[2]].kind
    ELSE files[path[1]][path[2]].kind

\* C10: no file is moved twice; a moved file is one the run took up and
\* downloaded, and it goes to processed/<godown> (script.py), or to processed
\* or, after a failed parse or an exception, processed/error (main.py); in a
\* finished run every downloaded file has its move
C10_OneMovePerDownload ==
    /\ \A i, j \in 1..Len(moves) : i # j => moves[i].path # moves[j].path
    /\ \A m \in 1..Len(moves) :
        /\ \E v \in 1..Len(visited) : visited[v] = moves[m].path
        /\ KindAt(moves[m].path) \notin {"dlfail", "hidden"}
        /\ prog = "script" => moves[m].dest = <<"processed", moves[m].path[1]>>
        /\ prog = "main" =>
            /\ moves[m].dest \in {<<"processed">>, <<"processed", "error">>}
            /\ KindAt(moves[m].path) \in {"parsefail", "badlabel"}
                => moves[m].dest = <<"processed", "error">>
    /\ pc = "done" =>
        \A v \in 1..Len(visited) :
            KindAt(visited[v]) # "dlfail" =>
                \E m \in 1..Len(moves) : moves[m].path = visited[v]

\* C10 witness: a finished main.py run over a failed download, a failed parse
\* and a sent file: two moves, one to processed/error and one to processed
C10_Witness ==
    /\ pc = "done" /\ prog = "main"
    /\ Len(visited) = 3
    /\ \E a, b, c \in 1..3 :
        /\ KindAt(visited[a]) = "dlfail"
        /\ KindAt(visited[b]) = "parsefail"
        /\ KindAt(visited[c]) = "ok"
    /\ Len(moves) = 2
    /\ \E m \in 1..2 : moves[m].dest = <<"processed">>
====
